---- MODULE Spec2Model ----
(***************************************************************************)
(* Model of descwl/model.py: the Galaxy source model and the GalaxyBuilder *)
(* that builds it from a catalog row.                                      *)
(*                                                                         *)
(* The numbers of a catalog row, the offsets and the fluxes are Python     *)
(* floats, and the arithmetic on them is IEEE 754 double arithmetic with   *)
(* its rounding: 0.1 + 0.2 + -0.3 is not zero and 0.6 + 0.3 + 0.1 is not   *)
(* one.  A float division by zero raises ZeroDivisionError and math.sqrt   *)
(* of a negative number raises ValueError; a row of numpy scalars would    *)
(* give inf or nan instead of the ZeroDivisionError, and what galsim makes *)
(* of such values is not part of this source.  Python's None is the empty  *)
(* tuple.  The assert statements are executed.  galsim.Add takes the list  *)
(* of components it is given, empty or not.                                *)
(***************************************************************************)
EXTENDS Integers, Sequences, FiniteSets, TLC

VARIABLES row, builder, ctor, call, ncalls, threads

vars == <<row, builder, ctor, call, ncalls, threads>>

None == << >>

----------------------------------------------------------------------------
(* Python floats: IEEE 754 binary64 with round-to-nearest-even.  A float   *)
(* is <<s, hi, lo, e>>, of value (-1)^s * (hi * 2^27 + lo) * 2^e with a    *)
(* 53-bit mantissa (2^25 <= hi < 2^26, 0 <= lo < 2^27), or FZero.  Zero    *)
(* has one representation (-0.0 == 0.0 in Python); exponents are not       *)
(* bounded (no value of the model leaves the normal range).                *)

Pow2 == [k \in 0..30 |-> 2^k]
W == Pow2[27]

FZero == <<0, 0, 0, 0>>

\* naturals below 2^58 as <<hi, lo>>, of value hi * 2^27 + lo
NZero == <<0, 0>>
NGeq(a, b) == a[1] > b[1] \/ (a[1] = b[1] /\ a[2] >= b[2])
NAdd(a, b) == <<a[1] + b[1] + (a[2] + b[2]) \div W, (a[2] + b[2]) % W>>
NSub(a, b) ==
    IF a[2] >= b[2] THEN <<a[1] - b[1], a[2] - b[2]>>
                    ELSE <<a[1] - b[1] - 1, a[2] + W - b[2]>>
NDouble(a) == <<2 * a[1] + (2 * a[2]) \div W, (2 * a[2]) % W>>

\* the number of bits of n < 2^31
BitLen(n) == Cardinality({k \in 0..30 : Pow2[k] <= n})
NBitLen(a) == IF a[1] > 0 THEN 27 + BitLen(a[1]) ELSE BitLen(a[2])

\* a * 2^k, for a result below 2^58
NShl(a, k) ==
    IF k = 0 THEN a
    ELSE IF k < 27
       THEN <<a[1] * Pow2[k] + a[2] \div Pow2[27 - k], (a[2] % Pow2[27 - k]) * Pow2[k]>>
       ELSE <<a[2] * Pow2[k - 27], 0>>

\* a \div 2^k for 0 < k < 27
NShr(a, k) == <<a[1] \div Pow2[k], (a[1] % Pow2[k]) * Pow2[27 - k] + a[2] \div Pow2[k]>>

\* n with its lowest bit set when lost holds
NSticky(n, lost) == IF lost /\ n[2] % 2 = 0 THEN <<n[1], n[2] + 1>> ELSE n

\* a \div 2^k, with the lowest bit set when a bit shifted out was set
RECURSIVE NShrSticky(_, _)
NShrSticky(a, k) ==
    IF k = 0 THEN a
    ELSE IF k >= 27
       THEN NShrSticky(NSticky(<<a[1] \div W, a[1] % W>>, a[2] # 0), k - 27)
       ELSE NSticky(NShr(a, k), a[2] % Pow2[k] # 0)

\* the float of sign s and mantissa m1 * 2^e, m1 a 53-bit number or 2^53
Carried(s, m1, e) ==
    IF m1[1] = Pow2[26] THEN <<s, Pow2[25], 0, e + 1>>
                        ELSE <<s, m1[1], m1[2], e>>

\* the float nearest to m0 * 2^e + rest * 2^(e - k), for half = 2^(k - 1)
RoundHalfEven(s, m0, e, rest, half, sticky) ==
    IF rest > half \/ (rest = half /\ (sticky \/ m0[2] % 2 = 1))
       THEN Carried(s, NAdd(m0, <<0, 1>>), e)
       ELSE Carried(s, m0, e)

\* RoundNorm for an n of len bits
RoundBits(s, n, e, sticky, len) ==
    IF len = 0 THEN FZero
    ELSE IF len <= 53
       THEN Carried(s, NShl(n, 53 - len), e - (53 - len))
       ELSE RoundHalfEven(s, NShr(n, len - 53), e + (len - 53),
                          n[2] % Pow2[len - 53], Pow2[len - 54], sticky)

\* the float nearest to (-1)^s * n * 2^e (ties to even), n below 2^58;
\* sticky says that the exact value is a little above n * 2^e
RoundNorm(s, n, e, sticky) == RoundBits(s, n, e, sticky, NBitLen(n))

\* float(n) for an integer n of less than 2^27 in magnitude
FromInt(n) == RoundNorm(IF n < 0 THEN 1 ELSE 0, <<0, IF n < 0 THEN -n ELSE n>>, 0, FALSE)

FIsZero(x) == x[2] = 0
FPos(x) == x[1] = 0 /\ x[2] # 0
FNeg(x) == x[1] = 1 /\ x[2] # 0
FMant(x) == <<x[2], x[3]>>

\* the sum of two floats of signs sa and sb and of mantissas big and sml in
\* units of 2^e, big the mantissa of the sign sa
AddMantissas(sa, sb, e, big, sml) ==
    IF sa # sb /\ big = sml THEN FZero
    ELSE RoundNorm(IF sa = sb \/ NGeq(big, sml) THEN sa ELSE sb,
                   IF sa = sb THEN NAdd(big, sml)
                   ELSE IF NGeq(big, sml) THEN NSub(big, sml)
                   ELSE NSub(sml, big),
                   e, FALSE)

\* a + b for non-zero floats, the exponent of a not below that of b: three
\* more bits of a, and b shifted to them with a sticky bit
AddAligned(a, b) ==
    AddMantissas(a[1], b[1], a[4] - 3, NShl(FMant(a), 3),
                 NShrSticky(NShl(FMant(b), 3), a[4] - b[4]))

\* x + y
FAdd(x, y) ==
    IF FIsZero(x) THEN y
    ELSE IF FIsZero(y) THEN x
    ELSE AddAligned(IF y[4] > x[4] THEN y ELSE x, IF y[4] > x[4] THEN x ELSE y)

\* the four 14-bit limbs, lowest first, of a natural below 2^56
Limbs(n) == <<n[2] % Pow2[14], n[2] \div Pow2[14] + (n[1] % 2) * Pow2[13], (n[1] \div 2) % Pow2[14], n[1] \div Pow2[15]>>

\* the columns of the long multiplication of four limbs by four limbs
MulColumns(x, y) ==
    <<x[1] * y[1],
      x[1] * y[2] + x[2] * y[1],
      x[1] * y[3] + x[2] * y[2] + x[3] * y[1],
      x[1] * y[4] + x[2] * y[3] + x[3] * y[2] + x[4] * y[1],
      x[2] * y[4] + x[3] * y[3] + x[4] * y[2],
      x[3] * y[4] + x[4] * y[3],
      x[4] * y[4]>>

\* the digits in base 2^14, lowest first, of the number of these columns
RECURSIVE Carry(_, _, _)
Carry(columns, carry, digits) ==
    IF columns = << >> THEN Append(digits, carry)
    ELSE Carry(Tail(columns), (Head(columns) + carry) \div Pow2[14],
               Append(digits, (Head(columns) + carry) % Pow2[14]))

\* the float of sign s nearest to 2^(e - 50) times the product of eight
\* digits p: its upper 56 bits, the bits below them sticky
ProductRounded(s, e, p) ==
    RoundNorm(s,
              <<p[6] \div Pow2[7] + p[7] * Pow2[7] + p[8] * Pow2[21],
                p[4] \div Pow2[8] + p[5] * Pow2[6] + (p[6] % Pow2[7]) * Pow2[20]>>,
              e,
              p[1] # 0 \/ p[2] # 0 \/ p[3] # 0 \/ p[4] % Pow2[8] # 0)

\* x * y
FMul(x, y) ==
    IF FIsZero(x) \/ FIsZero(y) THEN FZero
    ELSE ProductRounded((x[1] + y[1]) % 2, x[4] + y[4] + 50,
                        Carry(MulColumns(Limbs(FMant(x)), Limbs(FMant(y))), 0, << >>))

\* one digit of a long division in base 2^14: r and d are limbs, r < d and
\* the top limb of d has its top bit set; the digit is estimated from the
\* top limbs and lowered while the remainder r * 2^14 - q * d is negative.
\* The remainder is its four low digits n and what is above them, top.
RECURSIVE DivFix(_, _, _, _)
RECURSIVE DivCarried(_, _, _, _)

\* the digit q with the remainder v, four digits and a carry into top
DivCarried(q, top, v, d) == DivFix(q, top + v[5], SubSeq(v, 1, 4), d)

DivFix(q, top, n, d) ==
    IF top >= 0 THEN <<q, n>>
    ELSE DivCarried(q - 1, top,
                    Carry(<<n[1] + d[1], n[2] + d[2], n[3] + d[3], n[4] + d[4]>>, 0, << >>),
                    d)

\* the digit q tried: the remainder r * 2^14 - q * d
DivTried(r, d, q) ==
    DivCarried(q, r[4],
               Carry(<<0 - q * d[1], r[1] - q * d[2], r[2] - q * d[3], r[3] - q * d[4]>>,
                     0, << >>),
               d)

\* the digit from its estimate, which is at most 2^14 - 1
DivEstimated(r, d, est) == DivTried(r, d, IF est >= Pow2[14] THEN Pow2[14] - 1 ELSE est)

DivDigit(r, d) == DivEstimated(r, d, (r[4] * Pow2[14] + r[3]) \div d[4])

\* n digits of the long division of r by d: <<digits, highest first, remainder>>
RECURSIVE DivDigits(_, _, _, _)
RECURSIVE DivStep(_, _, _, _)

\* the digits after the digit and remainder step was found
DivStep(step, d, digits, n) == DivDigits(step[2], d, Append(digits, step[1]), n - 1)

DivDigits(r, d, digits, n) ==
    IF n = 0 THEN <<digits, r>>
    ELSE DivStep(DivDigit(r, d), d, digits, n)

\* the float of sign s nearest to 2^e times the quotient of four digits qr[1],
\* which has 56 bits, given the remainder qr[2] of the division
QuotientRounded(s, e, qr) ==
    RoundNorm(s,
              <<qr[1][3] \div Pow2[13] + qr[1][2] * 2 + qr[1][1] * Pow2[15] + Pow2[29],
                qr[1][4] + (qr[1][3] % Pow2[13]) * Pow2[14]>>,
              e,
              qr[2] # <<0, 0, 0, 0>>)

\* x / y for non-zero floats, sx = 1 when the mantissa of x is below that
\* of y and is doubled
DivMantissas(x, y, sx) ==
    QuotientRounded((x[1] + y[1]) % 2, x[4] - y[4] - 56 - sx,
                    DivDigits(Limbs(NShl(NSub(IF sx = 0 THEN FMant(x) ELSE NDouble(FMant(x)),
                                              FMant(y)), 3)),
                              Limbs(NShl(FMant(y), 3)), << >>, 4))

\* x / y for y # 0 (Python raises ZeroDivisionError for y = 0): the
\* quotient of the mantissas to 56 binary places, then rounded
FDiv(x, y) ==
    IF FIsZero(x) THEN FZero
    ELSE DivMantissas(x, y, IF NGeq(FMant(x), FMant(y)) THEN 0 ELSE 1)

\* the float a decimal literal n/d denotes (correctly rounded), d > 0
Flt(n, d) == FDiv(FromInt(n), FromInt(d))

\* the pair of bits 2j+1, 2j of the 54-bit natural m
BitPair(m, j) ==
    IF j >= 14 THEN (m[1] \div Pow2[2 * j - 27]) % 4
    ELSE IF j = 13 THEN (m[1] % 2) * 2 + m[2] \div Pow2[26]
    ELSE (m[2] \div Pow2[2 * j]) % 4

\* the integer square root of the 54-bit natural m, two bits of m for one
\* bit of the root from pair j down: <<root, remainder>>
RECURSIVE SqrtBits(_, _, _, _)
RECURSIVE SqrtBit(_, _, _, _)

\* the bit of pair j, rem4 the remainder with the pair brought down
SqrtBit(m, rem4, root, j) ==
    IF rem4 >= 4 * root + 1
       THEN SqrtBits(m, rem4 - (4 * root + 1), 2 * root + 1, j - 1)
       ELSE SqrtBits(m, rem4, 2 * root, j - 1)

SqrtBits(m, rem, root, j) ==
    IF j < 0 THEN <<root, rem>>
    ELSE SqrtBit(m, 4 * rem + BitPair(m, j), root, j)

\* the quotient and remainder of r * 2^(3n) by d, three bits at a time
RECURSIVE DivSmall(_, _, _, _)
DivSmall(r, q, d, n) ==
    IF n = 0 THEN <<q, r>>
    ELSE DivSmall((8 * r) % d, 8 * q + (8 * r) \div d, d, n - 1)

\* h * h * 2^28 + 2 * h * l * 2^14 + l * l
SquareOfHalves(h, l) ==
    NAdd(NAdd(NShl(<<0, h * h>>, 28), NShl(<<0, 2 * h * l>>, 14)), <<0, l * l>>)

\* q * q for q <= 2^27
NSquare(q) == SquareOfHalves(q \div Pow2[14], q % Pow2[14])

\* the float nearest to 2^e times the square root of a number whose integer
\* square root is s or s - 1: s when sq, the square of the lower half of
\* s, is not above low
SqrtRounded(e, s, low, sq) ==
    RoundNorm(0,
              IF NGeq(low, sq) THEN s ELSE NSub(s, <<0, 1>>),
              e,
              IF NGeq(low, sq) THEN low # sq
              ELSE NSub(NAdd(low, NSub(NDouble(s), <<0, 1>>)), sq) # NZero)

\* the root from its upper half and its lower half q, qu the division of
\* the remainder by twice the upper half
SqrtLower(e, root, q, qu) ==
    SqrtRounded(e, NAdd(<<root, 0>>, <<0, q>>), <<qu[2], 0>>, NSquare(q))

\* the root from its upper half sr[1] and the remainder sr[2] it leaves
SqrtUpper(e, sr, qu) ==
    SqrtLower(e, sr[1], qu[1] + (sr[2] \div (2 * sr[1])) * W, qu)

\* 2^e times the square root of m * 2^54, sr the integer square root of m
SqrtMantissa(e, sr) ==
    SqrtUpper(e, sr, DivSmall(sr[2] % (2 * sr[1]), 0, 2 * sr[1], 9))

\* math.sqrt(x) for x >= 0 (math.sqrt raises ValueError for x < 0): the
\* integer square root of the mantissa times 2^54, the upper half of the
\* root from the mantissa and the lower half by one division (Zimmermann's
\* Karatsuba square root), then rounded
FSqrt(x) ==
    IF FIsZero(x) THEN FZero
    ELSE SqrtMantissa((x[4] - (x[4] % 2) - 54) \div 2,
                      SqrtBits(IF x[4] % 2 = 1 THEN NDouble(FMant(x)) ELSE FMant(x),
                               0, 0, 26))

\* math.pi
Pi == <<0, 52707178, 71576856, -51>>

\* math.radians(x) = x * (pi / 180.0)
Radians(x) == FMul(x, FDiv(Pi, FromInt(180)))

----------------------------------------------------------------------------
(* class Galaxy                                                            *)

\* galsim.Exponential(flux, half_light_radius).shear(q, beta)
Exponential(flux, hlr, q, beta) ==
    [profile |-> "Exponential", flux |-> flux, half_light_radius |-> hlr,
     q |-> q, beta |-> beta, sigma |-> None]

\* galsim.DeVaucouleurs(flux, half_light_radius).shear(q, beta)
DeVaucouleurs(flux, hlr, q, beta) ==
    [profile |-> "DeVaucouleurs", flux |-> flux, half_light_radius |-> hlr,
     q |-> q, beta |-> beta, sigma |-> None]

\* sigma of the narrow Gaussian standing for the AGN: 1e-8
AgnSigmaInverse == 100000000
AgnSigma == Flt(1, AgnSigmaInverse)

\* galsim.Gaussian(flux, sigma = 1e-8)
Gaussian(flux) ==
    [profile |-> "Gaussian", flux |-> flux, half_light_radius |-> None,
     q |-> None, beta |-> None, sigma |-> AgnSigma]

\* the components list Galaxy.__init__ builds, in append order
Components(beta_radians, disk_flux, disk_hlr_arcsecs, disk_q, bulge_flux, bulge_hlr_arcsecs, bulge_q, agn_flux) ==
    (IF FPos(disk_flux)
        THEN <<Exponential(disk_flux, disk_hlr_arcsecs, disk_q, beta_radians)>>
        ELSE << >>)
    \o
    (IF FPos(bulge_flux)
        THEN <<DeVaucouleurs(bulge_flux, bulge_hlr_arcsecs, bulge_q, beta_radians)>>
        ELSE << >>)
    \o
    (IF FPos(agn_flux) THEN <<Gaussian(agn_flux)>> ELSE << >>)

\* Galaxy.__init__: model = galsim.Add(components).shift(dx, dy)
Galaxy(identifier, redshift, dx_arcsecs, dy_arcsecs, beta_radians, disk_flux, disk_hlr_arcsecs, disk_q, bulge_flux, bulge_hlr_arcsecs, bulge_q, agn_flux) ==
    [identifier |-> identifier,
     redshift   |-> redshift,
     dx_arcsecs |-> dx_arcsecs,
     dy_arcsecs |-> dy_arcsecs,
     model      |-> [components |-> Components(beta_radians,
                                       disk_flux, disk_hlr_arcsecs, disk_q,
                                       bulge_flux, bulge_hlr_arcsecs, bulge_q,
                                       agn_flux),
                     dx |-> dx_arcsecs,
                     dy |-> dy_arcsecs]]

----------------------------------------------------------------------------
(* The flux-normalization provider (survey): a pure map from AB magnitude  *)
(* to a flux in detected electrons.                                        *)

Mag24 == FromInt(24)
Mag29 == FromInt(29)
Magnitudes == {Mag24, Mag29}

\* a survey whose zero point gives 1000 electrons at magnitude 24
SurveyDeep == [m \in Magnitudes |-> IF m = Mag24 THEN FromInt(1000) ELSE FromInt(10)]
\* a survey with zero exposure time: no electrons are detected
SurveyDark == [m \in Magnitudes |-> FZero]

Surveys == {SurveyDeep, SurveyDark}

\* survey.get_flux(ab_magnitude)
get_flux(survey, ab_magnitude) == survey[ab_magnitude]

----------------------------------------------------------------------------
(* class GalaxyBuilder                                                     *)

\* a constructor that lost its check of the suppression flags
GalaxyBuilderInitUnchecked(survey, no_disk, no_bulge, no_agn, verbose_model) ==
    [raised |-> "",
     self   |-> [survey        |-> survey,
                 no_disk       |-> no_disk,
                 no_bulge      |-> no_bulge,
                 no_agn        |-> no_agn,
                 verbose_model |-> verbose_model]]

\* GalaxyBuilder.__init__: the exception raised, or the attributes set
GalaxyBuilderInit(survey, no_disk, no_bulge, no_agn, verbose_model) ==
    IF no_disk /\ no_bulge /\ no_agn
       THEN [raised |-> "RuntimeError", self |-> None]
       ELSE [raised |-> "",
             self   |-> [survey        |-> survey,
                         no_disk       |-> no_disk,
                         no_bulge      |-> no_bulge,
                         no_agn        |-> no_agn,
                         verbose_model |-> verbose_model]]

Bands == {"u", "g", "r", "i", "z", "y"}

\* filter_band + '_ab'
AbKey(filter_band) ==
    CASE filter_band = "u" -> "u_ab"
      [] filter_band = "g" -> "g_ab"
      [] filter_band = "r" -> "r_ab"
      [] filter_band = "i" -> "i_ab"
      [] filter_band = "z" -> "z_ab"
      [] filter_band = "y" -> "y_ab"

\* a lookup that falls back to magnitude 24 when the field is absent
LookupMagnitudeDefaulting(entry, filter_band) ==
    IF AbKey(filter_band) \in DOMAIN entry
       THEN [raised |-> "", ab_magnitude |-> entry[AbKey(filter_band)]]
       ELSE [raised |-> "", ab_magnitude |-> Mag24]

\* ab_magnitude = entry[filter_band + '_ab'], KeyError turned into RuntimeError
LookupMagnitude(entry, filter_band) ==
    IF AbKey(filter_band) \in DOMAIN entry
       THEN [raised |-> "", ab_magnitude |-> entry[AbKey(filter_band)]]
       ELSE [raised |-> "RuntimeError", ab_magnitude |-> None]

\* what a from_catalog call leaves behind: how it ended, the value returned,
\* the locals it had resolved, its calls to the provider and its print lines
Ended(outcome, galaxy, get_flux_calls, total_flux, fluxes, beta_radians, printed) ==
    [outcome        |-> outcome,
     galaxy         |-> galaxy,
     get_flux_calls |-> get_flux_calls,
     total_flux     |-> total_flux,
     fluxes         |-> fluxes,
     beta_radians   |-> beta_radians,
     printed        |-> printed]

\* a flux split that forgets to normalise by total_fluxnorm
ComponentFluxUnnormalised(suppressed, fluxnorm, total_fluxnorm, total_flux) ==
    IF suppressed THEN FZero
    ELSE FMul(fluxnorm, total_flux)

\* one component's flux: 0. if suppressed, else fluxnorm/total_fluxnorm*total_flux
ComponentFlux(suppressed, fluxnorm, total_fluxnorm, total_flux) ==
    IF suppressed THEN FZero
    ELSE FMul(FDiv(fluxnorm, total_fluxnorm), total_flux)

\* total_fluxnorm = fluxnorm_disk + fluxnorm_bulge + fluxnorm_agn
TotalFluxnorm(entry) ==
    FAdd(FAdd(entry["fluxnorm_disk"], entry["fluxnorm_bulge"]), entry["fluxnorm_agn"])

\* a visibility check that tests each flux instead of their sum
NoFluxEach(disk_flux, bulge_flux, agn_flux) ==
    FIsZero(disk_flux) /\ FIsZero(bulge_flux) /\ FIsZero(agn_flux)

\* "Is there any flux to simulate?": disk_flux + bulge_flux + agn_flux == 0
NoFlux(disk_flux, bulge_flux, agn_flux) ==
    FIsZero(FAdd(FAdd(disk_flux, bulge_flux), agn_flux))

\* an angle resolution without the assertion: the disk's angle wins
ResolveBetaUnasserted(entry, disk_flux, bulge_flux) ==
    IF FPos(disk_flux)
       THEN [raised |-> "", beta_radians |-> Radians(entry["pa_disk"])]
    ELSE IF FPos(bulge_flux)
       THEN [raised |-> "", beta_radians |-> Radians(entry["pa_bulge"])]
       ELSE [raised |-> "", beta_radians |-> None]

\* the position angle of the Sersic components, and the failed assertion
\* (beta_radians is assigned before the assert statement runs)
ResolveBeta(entry, disk_flux, bulge_flux) ==
    IF FPos(disk_flux)
       THEN [raised |-> IF FPos(bulge_flux) /\ entry["pa_disk"] # entry["pa_bulge"]
                           THEN "AssertionError" ELSE "",
             beta_radians |-> Radians(entry["pa_disk"])]
    ELSE IF FPos(bulge_flux)
       THEN [raised |-> "", beta_radians |-> Radians(entry["pa_bulge"])]
       ELSE [raised |-> "", beta_radians |-> None]

\* hlr = math.sqrt(a*b) and q = b/a, from the product ab = a*b: math.sqrt
\* raises ValueError for a negative product, the division raises
\* ZeroDivisionError for a == 0
ShapeOf(a, b, ab) ==
    IF FNeg(ab) THEN [raised |-> "ValueError", hlr |-> None, q |-> None]
    ELSE [raised |-> IF FIsZero(a) THEN "ZeroDivisionError" ELSE "",
          hlr    |-> FSqrt(ab),
          q      |-> IF FIsZero(a) THEN None ELSE FDiv(b, a)]

\* the shape of a Sersic component: None, None unless its flux is positive
Shape(flux, a, b) ==
    IF ~FPos(flux) THEN [raised |-> "", hlr |-> None, q |-> None]
    ELSE ShapeOf(a, b, FMul(a, b))

\* the verbose block: the lines printed and the exception the formatting raises
\* ('%.6f' % None is a TypeError)
VerboseReport(verbose_model, beta_radians, disk_flux, bulge_flux, agn_flux) ==
    IF ~verbose_model THEN [raised |-> "", printed |-> << >>]
    ELSE IF beta_radians = None
       THEN [raised |-> "TypeError", printed |-> <<"id", "flux">>]
       ELSE [raised |-> "",
             printed |-> <<"id", "flux", "centroid">>
                         \o (IF FPos(disk_flux) THEN <<"disk">> ELSE << >>)
                         \o (IF FPos(bulge_flux) THEN <<"bulge">> ELSE << >>)
                         \o (IF FPos(agn_flux) THEN <<"AGN">> ELSE << >>)]

\* "Is there any flux to simulate?": return SourceNotVisible, or go on
CheckVisible(total_flux, fluxes) ==
    Ended(IF NoFlux(fluxes.disk, fluxes.bulge, fluxes.agn) THEN "SourceNotVisible" ELSE "",
          None, 1, total_flux, fluxes, None, << >>)

\* the three component fluxes, from total_flux and total_fluxnorm; with a zero
\* total_fluxnorm the division of the first component that is not suppressed
\* raises (the constructor left at least one)
SplitTotal(self, entry, total_flux, total_fluxnorm) ==
    IF FIsZero(total_fluxnorm)
       THEN Ended("ZeroDivisionError", None, 1, total_flux, None, None, << >>)
       ELSE CheckVisible(total_flux,
                [disk  |-> ComponentFlux(self.no_disk, entry["fluxnorm_disk"],
                                         total_fluxnorm, total_flux),
                 bulge |-> ComponentFlux(self.no_bulge, entry["fluxnorm_bulge"],
                                         total_fluxnorm, total_flux),
                 agn   |-> ComponentFlux(self.no_agn, entry["fluxnorm_agn"],
                                         total_fluxnorm, total_flux)])

\* total_flux = self.survey.get_flux(ab_magnitude), unless the lookup raised
SplitFlux(self, entry, lookup) ==
    IF lookup.raised # ""
       THEN Ended(lookup.raised, None, 0, None, None, None, << >>)
       ELSE SplitTotal(self, entry, get_flux(self.survey, lookup.ab_magnitude),
                       TotalFluxnorm(entry))

\* from_catalog up to its visibility check: the call has ended (an exception
\* or the not-visible signal), or goes on (outcome "") with its fluxes resolved
ResolveFluxes(self, entry, filter_band) ==
    SplitFlux(self, entry, LookupMagnitude(entry, filter_band))

\* the verbose block has run: its exception, or return Galaxy(...)
AssembleReported(entry, dx_arcsecs, dy_arcsecs, resolved, beta_radians, disk, bulge, report) ==
    IF report.raised # ""
       THEN Ended(report.raised, None, 1, resolved.total_flux, resolved.fluxes,
                  beta_radians, report.printed)
       ELSE Ended("Galaxy",
                  Galaxy(entry["id"], entry["redshift"], dx_arcsecs, dy_arcsecs,
                         beta_radians,
                         resolved.fluxes.disk, disk.hlr, disk.q,
                         resolved.fluxes.bulge, bulge.hlr, bulge.q,
                         resolved.fluxes.agn),
                  1, resolved.total_flux, resolved.fluxes, beta_radians,
                  report.printed)

\* the shape of the bulge is resolved: its exception, or the verbose block
AssembleBulge(self, entry, dx_arcsecs, dy_arcsecs, resolved, beta_radians, disk, bulge) ==
    IF bulge.raised # ""
       THEN Ended(bulge.raised, None, 1, resolved.total_flux, resolved.fluxes,
                  beta_radians, << >>)
       ELSE AssembleReported(entry, dx_arcsecs, dy_arcsecs, resolved, beta_radians,
                             disk, bulge,
                             VerboseReport(self.verbose_model, beta_radians,
                                           resolved.fluxes.disk, resolved.fluxes.bulge,
                                           resolved.fluxes.agn))

\* the shape of the disk is resolved: its exception, or the shape of the bulge
AssembleDisk(self, entry, dx_arcsecs, dy_arcsecs, resolved, beta_radians, disk) ==
    IF disk.raised # ""
       THEN Ended(disk.raised, None, 1, resolved.total_flux, resolved.fluxes,
                  beta_radians, << >>)
       ELSE AssembleBulge(self, entry, dx_arcsecs, dy_arcsecs, resolved, beta_radians,
                          disk,
                          Shape(resolved.fluxes.bulge, entry["a_b"], entry["b_b"]))

\* the position angle is resolved: the failed assertion, or the shape of the disk
AssembleBeta(self, entry, dx_arcsecs, dy_arcsecs, resolved, beta) ==
    IF beta.raised # ""
       THEN Ended(beta.raised, None, 1, resolved.total_flux, resolved.fluxes,
                  beta.beta_radians, << >>)
       ELSE AssembleDisk(self, entry, dx_arcsecs, dy_arcsecs, resolved,
                         beta.beta_radians,
                         Shape(resolved.fluxes.disk, entry["a_d"], entry["b_d"]))

\* from_catalog after its visibility check, from the locals resolved so far
Assemble(self, entry, dx_arcsecs, dy_arcsecs, resolved) ==
    AssembleBeta(self, entry, dx_arcsecs, dy_arcsecs, resolved,
                 ResolveBeta(entry, resolved.fluxes.disk, resolved.fluxes.bulge))

\* from_catalog from its visibility check on: the call has ended, or goes on
FromResolved(self, entry, dx_arcsecs, dy_arcsecs, resolved) ==
    IF resolved.outcome # "" THEN resolved
    ELSE Assemble(self, entry, dx_arcsecs, dy_arcsecs, resolved)

\* GalaxyBuilder.from_catalog
from_catalog(self, entry, dx_arcsecs, dy_arcsecs, filter_band) ==
    FromResolved(self, entry, dx_arcsecs, dy_arcsecs,
                 ResolveFluxes(self, entry, filter_band))

\* a from_catalog that switches the report off once it has run
SelfAfterFromCatalogQuietened(self, entry, filter_band) ==
    [self EXCEPT !.verbose_model = FALSE]

\* the builder after a from_catalog call: the method assigns no attribute of self
SelfAfterFromCatalog(self, entry, filter_band) == self

----------------------------------------------------------------------------
(* Catalog rows and call arguments                                         *)

\* flux-normalization fractions: -0.3, 0.0, 0.1, 0.2, 0.3, 0.6
Fluxnorms == {Flt(k, 10) : k \in {-3, 0, 1, 2, 3, 6}}
\* position angles <<pa_disk, pa_bulge>> in degrees
PositionAngles == {<<FromInt(45), FromInt(45)>>, <<FromInt(90), FromInt(45)>>}
\* semi-axes <<a_d, b_d, a_b, b_b>> in arcseconds: those of a galaxy, a row
\* with a_d = 0 and a_b = 0, and a row with a negative a_d
Axes ==
    {<<FromInt(4), FromInt(1), Flt(9, 10), Flt(4, 10)>>,
     <<FZero, FromInt(1), FZero, Flt(4, 10)>>,
     <<FromInt(-4), FromInt(1), Flt(9, 10), Flt(4, 10)>>}
\* the magnitude fields a row carries
AbFields == {[r_ab |-> Mag24], [r_ab |-> Mag29, i_ab |-> Mag24]}
RequestedBands == {b \in Bands : b \in {"r", "i"}}
Offsets == {<<Flt(1, 2), Flt(-1, 4)>>}

Row(ab, fd, fb, fa, pa, axes) ==
    ab @@ [id |-> 7, redshift |-> Flt(1, 2),
           fluxnorm_disk |-> fd, fluxnorm_bulge |-> fb, fluxnorm_agn |-> fa,
           pa_disk |-> pa[1], pa_bulge |-> pa[2],
           a_d |-> axes[1], b_d |-> axes[2], a_b |-> axes[3], b_b |-> axes[4]]

Rows == {Row(ab, fd, fb, fa, pa, axes) :
            ab \in AbFields, fd \in Fluxnorms, fb \in Fluxnorms, fa \in Fluxnorms,
            pa \in PositionAngles, axes \in Axes}

----------------------------------------------------------------------------
(* State machine: one run holds one catalog row, constructs the builder    *)
(* once and calls from_catalog on the row any number of times.             *)

\* the number of from_catalog calls a sequential run makes
MaxCalls == 1
\* the number of threads that call from_catalog on the one builder
MaxThreads == 2

Threads == 1..MaxThreads

\* a thread that is not in a call and has no result yet
Idle == [pc |-> "idle", args |-> None, frame |-> None]

Init ==
    /\ row \in Rows
    /\ builder = None
    /\ ctor = None
    /\ call = None
    /\ ncalls = 0
    /\ threads = [t \in Threads |-> Idle]

\* builder = GalaxyBuilder(survey, no_disk, no_bulge, no_agn, verbose_model)
Construct(survey, no_disk, no_bulge, no_agn, verbose_model) ==
    LET r == GalaxyBuilderInit(survey, no_disk, no_bulge, no_agn, verbose_model)
    IN  /\ builder = None
        /\ ctor' = [survey |-> survey, no_disk |-> no_disk, no_bulge |-> no_bulge,
                    no_agn |-> no_agn, verbose_model |-> verbose_model,
                    raised |-> r.raised]
        /\ builder' = r.self
        /\ UNCHANGED <<row, call, ncalls, threads>>

\* builder.from_catalog(row, dx_arcsecs, dy_arcsecs, filter_band)
FromCatalog(dx_arcsecs, dy_arcsecs, filter_band) ==
    /\ builder # None
    /\ ncalls < MaxCalls
    /\ ncalls' = ncalls + 1
    /\ call' = [dx_arcsecs |-> dx_arcsecs, dy_arcsecs |-> dy_arcsecs,
                filter_band |-> filter_band, self |-> builder,
                ret |-> from_catalog(builder, row, dx_arcsecs, dy_arcsecs, filter_band)]
    /\ builder' = SelfAfterFromCatalog(builder, row, filter_band)
    /\ UNCHANGED <<row, ctor, threads>>

Next ==
    \/ \E survey \in Surveys, no_disk \in BOOLEAN, no_bulge \in BOOLEAN,
          no_agn \in BOOLEAN, verbose_model \in BOOLEAN :
            Construct(survey, no_disk, no_bulge, no_agn, verbose_model)
    \/ \E offset \in Offsets, filter_band \in RequestedBands :
            FromCatalog(offset[1], offset[2], filter_band)

Spec == Init /\ [][Next]_vars

----------------------------------------------------------------------------
(* Threads calling from_catalog on the one builder.  A call takes two      *)
(* steps, each reading the builder as it is then: up to the visibility     *)
(* check (self.survey, self.no_disk, self.no_bulge, self.no_agn), and from *)
(* there to the return (self.verbose_model).                               *)

\* the rows of the threaded runs
ThreadRows ==
    {r \in Rows :
        /\ {r["fluxnorm_disk"], r["fluxnorm_bulge"], r["fluxnorm_agn"]}
              \subseteq {Flt(-3, 10), FZero, Flt(6, 10)}
        /\ r["fluxnorm_disk"] # Flt(-3, 10)
        /\ r["fluxnorm_bulge"] = Flt(6, 10)
        /\ FPos(r["a_d"]) /\ FPos(r["a_b"])}

InitThreads == Init /\ row \in ThreadRows

\* the frame of a thread that has run from_catalog up to the visibility check
Entered(args, resolved) ==
    [pc    |-> IF resolved.outcome # "" THEN "idle" ELSE "assemble",
     args  |-> args,
     frame |-> resolved]

\* thread t enters from_catalog and runs it up to the visibility check
Enter(t, dx_arcsecs, dy_arcsecs, filter_band) ==
    /\ builder # None
    /\ threads[t].pc = "idle"
    /\ threads' = [threads EXCEPT ![t] =
                      Entered([dx_arcsecs |-> dx_arcsecs,
                               dy_arcsecs |-> dy_arcsecs,
                               filter_band |-> filter_band],
                              ResolveFluxes(builder, row, filter_band))]
    /\ builder' = IF threads'[t].pc = "idle"
                     THEN SelfAfterFromCatalog(builder, row, filter_band)
                     ELSE builder
    /\ UNCHANGED <<row, ctor, call, ncalls>>

\* thread t runs the rest of from_catalog and returns
Return(t) ==
    /\ builder # None
    /\ threads[t].pc = "assemble"
    /\ threads' = [threads EXCEPT ![t] =
                      [pc    |-> "idle",
                       args  |-> @.args,
                       frame |-> Assemble(builder, row, @.args.dx_arcsecs,
                                          @.args.dy_arcsecs, @.frame)]]
    /\ builder' = SelfAfterFromCatalog(builder, row, threads[t].args.filter_band)
    /\ UNCHANGED <<row, ctor, call, ncalls>>

NextThreads ==
    \/ \E survey \in Surveys, no_disk \in BOOLEAN, no_bulge \in BOOLEAN,
          no_agn \in BOOLEAN, verbose_model \in BOOLEAN :
            Construct(survey, no_disk, no_bulge, no_agn, verbose_model)
    \/ \E t \in Threads, offset \in Offsets, filter_band \in RequestedBands :
            Enter(t, offset[1], offset[2], filter_band)
    \/ \E t \in Threads : Return(t)

SpecThreads == InitThreads /\ [][NextThreads]_vars

----------------------------------------------------------------------------
(* Properties                                                              *)

Called == call # None
Ret == call.ret
Resolved == Called /\ Ret.fluxes # None
Returned == Called /\ Ret.outcome = "Galaxy"
Sum3(f) == FAdd(FAdd(f.disk, f.bulge), f.agn)
ComponentsOf(r) == r.galaxy.model.components
BandPresent == AbKey(call.filter_band) \in DOMAIN row
Unsuppressed == ~call.self.no_disk /\ ~call.self.no_bulge /\ ~call.self.no_agn

\* C1: whenever the three resolved fluxes of a call sum to zero, the call
\* returned the not-visible signal: no Galaxy was returned and nothing was raised.
C1_ZeroFluxIsNotVisible ==
    (Resolved /\ FIsZero(Sum3(Ret.fluxes)))
        => (Ret.outcome = "SourceNotVisible" /\ Ret.galaxy = None)

\* C1 witness: a call whose resolved fluxes are not all zero but cancel
C1_Witness ==
    /\ Resolved
    /\ FIsZero(Sum3(Ret.fluxes))
    /\ ~FIsZero(Ret.fluxes.agn)
    /\ Ret.outcome = "SourceNotVisible"

\* C2 (as claimed): every Galaxy returned has a component with positive flux.
C2_Original ==
    Returned => \E i \in 1..Len(ComponentsOf(Ret)) : FPos(ComponentsOf(Ret)[i].flux)

\* C3 (as claimed): the same call on a builder that differs only in the
\* verbosity flag ends the same way with the same Galaxy.
C3_Original ==
    Called =>
        LET other == from_catalog([call.self EXCEPT !.verbose_model = ~@], row,
                                  call.dx_arcsecs, call.dy_arcsecs, call.filter_band)
        IN  other.outcome = Ret.outcome /\ other.galaxy = Ret.galaxy

\* -x
C4_Negate(x) == IF FIsZero(x) THEN x ELSE <<1 - x[1], x[2], x[3], x[4]>>

\* abs(x) >= abs(y)
C4_AbsGeq(x, y) ==
    \/ FIsZero(y)
    \/ ~FIsZero(x) /\ (x[4] > y[4] \/ (x[4] = y[4] /\ NGeq(FMant(x), FMant(y))))

\* the float n units in the last place above x > 0 (within its binade)
C4_StepUp(x, n) == <<x[1], x[2], x[3] + n, x[4]>>

\* x and y differ by at most 2^k units in the last place of scale
C4_Within(x, y, scale, k) ==
    LET d == FAdd(x, C4_Negate(y))
    IN  \/ FIsZero(d)
        \/ /\ ~FIsZero(scale)
           /\ \/ d[4] + 53 <= scale[4] + k
              \/ d[4] + 52 = scale[4] + k /\ FMant(d) = <<Pow2[25], 0>>

\* the largest of the three fluxes in magnitude
C4_Largest(f) ==
    LET m == IF C4_AbsGeq(f.disk, f.bulge) THEN f.disk ELSE f.bulge
    IN  IF C4_AbsGeq(m, f.agn) THEN m ELSE f.agn

\* the row and the call of the example: 0.6/0.3/0.1 of a total flux of 1000
C4_Example ==
    /\ Unsuppressed
    /\ row["fluxnorm_disk"] = Flt(6, 10)
    /\ row["fluxnorm_bulge"] = Flt(3, 10)
    /\ row["fluxnorm_agn"] = Flt(1, 10)
    /\ Ret.total_flux = FromInt(1000)

\* the flux the claim C4 gives a component, computed as the code computes it
C4_FluxAsClaimed(suppressed, flux, fluxnorm) ==
    IF suppressed THEN flux = FZero
    ELSE flux = FMul(FDiv(fluxnorm, TotalFluxnorm(row)),
                     get_flux(call.self.survey, row[AbKey(call.filter_band)]))

C4_FluxUpToRounding(suppressed, flux, fluxnorm) ==
    IF suppressed THEN flux = FZero
    ELSE LET lhs == FMul(flux, TotalFluxnorm(row))
             rhs == FMul(fluxnorm, get_flux(call.self.survey, row[AbKey(call.filter_band)]))
         IN  C4_Within(lhs, rhs, rhs, 0)

C5_Fraction(c) ==
    CASE c = "disk" -> row["fluxnorm_disk"]
      [] c = "bulge" -> row["fluxnorm_bulge"]
      [] c = "agn" -> row["fluxnorm_agn"]

\* the components of the row with a positive flux fraction
C5_PositiveFractions == {c \in {"disk", "bulge", "agn"} : FPos(C5_Fraction(c))}

C5_Suppressed(c) ==
    CASE c = "disk" -> call.self.no_disk
      [] c = "bulge" -> call.self.no_bulge
      [] c = "agn" -> call.self.no_agn

C5_Profile(c) ==
    CASE c = "disk" -> "Exponential"
      [] c = "bulge" -> "DeVaucouleurs"
      [] c = "agn" -> "Gaussian"

\* the fractions of the row are not negative and its semi-major axes are
\* positive, as in a catalog, and the provider gives the row a positive
\* total flux
C5_Physical ==
    /\ \A c \in {"disk", "bulge", "agn"} : ~FNeg(C5_Fraction(c))
    /\ FPos(row["a_d"]) /\ FPos(row["a_b"])
    /\ FPos(Ret.total_flux)

\* C5 (as claimed, for rows with fractions >= 0, positive axes and a positive
\* total flux): a call on a row with exactly one positive flux fraction, whose
\* component is not suppressed, returns a Galaxy with exactly one component,
\* of that kind, with flux total_flux x fraction / fraction sum (the total
\* flux: the fraction is the fraction sum).
C5_Original ==
    (Called /\ BandPresent /\ Cardinality(C5_PositiveFractions) = 1 /\ C5_Physical) =>
        \A c \in C5_PositiveFractions :
            ~C5_Suppressed(c) =>
                /\ Ret.outcome = "Galaxy"
                /\ Len(ComponentsOf(Ret)) = 1
                /\ ComponentsOf(Ret)[1].profile = C5_Profile(c)
                /\ ComponentsOf(Ret)[1].flux = Ret.total_flux

\* the angle in radians of a catalog angle in degrees: degrees * (pi / 180)
C6_Radians(degrees) == FMul(degrees, FDiv(Pi, FromInt(180)))

\* C6 (as claimed): when the resolved disk and bulge fluxes are both positive,
\* equal catalog angles resolve to radians(theta) and different angles end the
\* call with the failed assertion and no Galaxy; when only the bulge flux is
\* positive the angle resolved is radians(pa_bulge).
C6_Original ==
    Resolved =>
        /\ (FPos(Ret.fluxes.disk) /\ FPos(Ret.fluxes.bulge)
              /\ row["pa_disk"] = row["pa_bulge"])
             => Ret.beta_radians = C6_Radians(row["pa_disk"])
        /\ (FPos(Ret.fluxes.disk) /\ FPos(Ret.fluxes.bulge)
              /\ row["pa_disk"] # row["pa_bulge"])
             => (Ret.outcome = "AssertionError" /\ Ret.galaxy = None)
        /\ (~FPos(Ret.fluxes.disk) /\ FPos(Ret.fluxes.bulge))
             => Ret.beta_radians = C6_Radians(row["pa_bulge"])

\* C6 (amended): for a call that got past the visibility check (its three
\* resolved fluxes do not sum to zero): when the resolved disk and bulge fluxes
\* are both positive, equal catalog angles resolve to radians(theta), the
\* angle of both Sersic components of a Galaxy returned, and different angles
\* end the call with the failed assertion and no Galaxy; when only the bulge
\* flux is positive the angle resolved, and that of the bulge of a Galaxy
\* returned, is radians(pa_bulge).  A call whose fluxes sum to zero returns
\* the not-visible signal whatever the angles are.
C6_PositionAngle ==
    Resolved =>
        IF FIsZero(Sum3(Ret.fluxes))
        THEN Ret.outcome = "SourceNotVisible" /\ Ret.beta_radians = None
        ELSE
        /\ (FPos(Ret.fluxes.disk) /\ FPos(Ret.fluxes.bulge)
              /\ row["pa_disk"] = row["pa_bulge"])
             => /\ Ret.outcome # "AssertionError"
                /\ Ret.beta_radians = C6_Radians(row["pa_disk"])
                /\ Ret.outcome = "Galaxy"
                     => /\ ComponentsOf(Ret)[1].beta = Ret.beta_radians
                        /\ ComponentsOf(Ret)[2].beta = Ret.beta_radians
        /\ (FPos(Ret.fluxes.disk) /\ FPos(Ret.fluxes.bulge)
              /\ row["pa_disk"] # row["pa_bulge"])
             => (Ret.outcome = "AssertionError" /\ Ret.galaxy = None)
        /\ (~FPos(Ret.fluxes.disk) /\ FPos(Ret.fluxes.bulge))
             => /\ Ret.beta_radians = C6_Radians(row["pa_bulge"])
                /\ Ret.outcome = "Galaxy"
                     => ComponentsOf(Ret)[1].beta = Ret.beta_radians

\* C6 witness: disk and bulge both visible with different catalog angles
C6_Witness ==
    /\ Resolved
    /\ FPos(Ret.fluxes.disk) /\ FPos(Ret.fluxes.bulge)
    /\ row["pa_disk"] # row["pa_bulge"]
    /\ Ret.outcome = "AssertionError"

\* C7: constructing a builder with all three suppression flags set raises and
\* yields no builder, every other combination yields a builder, and an
\* existing builder always has a suppression flag that is false.
C7_NotAllSuppressed ==
    /\ builder # None => ~(builder.no_disk /\ builder.no_bulge /\ builder.no_agn)
    /\ ctor # None =>
         IF ctor.no_disk /\ ctor.no_bulge /\ ctor.no_agn
            THEN ctor.raised = "RuntimeError" /\ builder = None
            ELSE ctor.raised = "" /\ builder # None

\* C7 witness: a construction with all three flags set has failed
C7_Witness ==
    /\ ctor # None
    /\ ctor.no_disk /\ ctor.no_bulge /\ ctor.no_agn
    /\ ctor.raised = "RuntimeError"
    /\ builder = None

\* C8: a call for a band whose magnitude field the row lacks raises the data
\* error, returns neither a Galaxy nor the not-visible signal, and does not
\* call the flux-normalization provider.
C8_MissingMagnitude ==
    (Called /\ ~BandPresent) =>
        /\ Ret.outcome = "RuntimeError"
        /\ Ret.galaxy = None
        /\ Ret.get_flux_calls = 0

\* C8 witness: a call for a band the row has no magnitude for
C8_Witness ==
    /\ Called
    /\ ~BandPresent
    /\ Ret.outcome = "RuntimeError"

\* C9 (as claimed): a call on a row that carries every named field ends with a
\* Galaxy, the not-visible signal or the position-angle mismatch error.
C9_Original ==
    (Called /\ BandPresent) =>
        Ret.outcome \in {"Galaxy", "SourceNotVisible", "AssertionError"}

\* the builder the constructor call of this run returned
C10_Fresh ==
    GalaxyBuilderInit(ctor.survey, ctor.no_disk, ctor.no_bulge, ctor.no_agn,
                      ctor.verbose_model).self

\* the calls of the threads that have ended
C10_Ended == {t \in Threads : threads[t].pc = "idle" /\ threads[t].frame # None}

\* C10: whatever calls the threads have made and are making, the builder still
\* has the attributes its constructor set, and every call that has ended ended
\* as the same call on a freshly constructed builder of that configuration ends.
C10_BuilderUnchanged ==
    /\ builder # None => builder = C10_Fresh
    /\ \A t \in C10_Ended :
          threads[t].frame = from_catalog(C10_Fresh, row, threads[t].args.dx_arcsecs,
                                          threads[t].args.dy_arcsecs,
                                          threads[t].args.filter_band)

\* C10 witness: a call has ended, here in a failure or the not-visible
\* signal, while another thread is inside from_catalog
C10_Witness ==
    /\ builder # None
    /\ builder = C10_Fresh
    /\ \E t \in C10_Ended, u \in Threads :
          /\ threads[u].pc = "assemble"
          /\ threads[t].frame.outcome
                \in {"AssertionError", "RuntimeError", "SourceNotVisible", "TypeError"}

====
